---- MODULE Spec2Model ----
(***************************************************************************)
(* Model of LoginComponent (src/src/app/auth/login/login.component.ts):    *)
(* the reactive login form (two controls with validators), the three       *)
(* derived streams buttonDisabled$, emailMessage$ and passwordMessage$,    *)
(* and onSubmit() with the subscription callback that handles the          *)
(* authentication response.                                                *)
(*                                                                         *)
(* Strings the validators inspect are sequences of one-character strings.  *)
(* Everything runs on the single UI event loop, so every handler is one    *)
(* atomic action.                                                          *)
(***************************************************************************)
EXTENDS Integers, Sequences, FiniteSets, TLC

VARIABLES
    controls,         \* formGroup.controls: per control value, errors, dirty, touched
    formGroup,        \* formGroup.value and formGroup.status
    subscribed,       \* the view has subscribed to the three derived streams
    buttonDisabled,   \* last emission of buttonDisabled$ (with its origin)
    emailMessage,     \* last emission of emailMessage$
    passwordMessage,  \* last emission of passwordMessage$
    submitCalls,      \* number of onSubmit() invocations
    loginCalls,       \* number of authService.loginUser() invocations
    inFlight,         \* loginUser() results subscribed to and not yet delivered
    responses,        \* number of responses handed to the subscribe callback
    loginFailedShown, \* number of 'Login failed' snack bars opened
    loggedInShown,    \* number of 'Logged in!' snack bars opened
    navigations,      \* number of router.navigateByUrl() invocations
    effects           \* collaborator calls made by the most recent handler, in order

formVars == <<controls, formGroup>>
streamVars == <<subscribed, buttonDisabled, emailMessage, passwordMessage>>
submitVars == <<submitCalls, loginCalls, inFlight, responses, loginFailedShown, loggedInShown,
                navigations>>
vars == <<controls, formGroup, subscribed, buttonDisabled, emailMessage, passwordMessage,
          submitCalls, loginCalls, inFlight, responses, loginFailedShown, loggedInShown,
          navigations, effects>>

----------------------------------------------------------------------------
(* Bounds *)

MaxEmailLen == 3
MaxPasswordLen == 9
MaxSubmits == 2

(* Program constant: Validators.minLength(8) *)
MinLength == 8

----------------------------------------------------------------------------
(* Input domains *)

EmailAlphabet == {"a", "@", "."}
PasswordAlphabet == {"p"}

(* one input event: a character typed at the end, or the last one deleted *)
Keystrokes(v, alphabet, maxLen) ==
    {Append(v, c) : c \in IF Len(v) < maxLen THEN alphabet ELSE {}}
        \cup (IF Len(v) > 0 THEN {SubSeq(v, 1, Len(v) - 1)} ELSE {})

Undefined == "<undefined>"
ErrorValues == {Undefined, "", "bad credentials"}
TokenValues == {Undefined, "", "abc123"}
Responses == [error : ErrorValues, token : TokenValues]

NoEmission == [src |-> "none"]

----------------------------------------------------------------------------
(* Validators *)

(* Validators.required: an error for the empty value *)
Required(v) == IF Len(v) = 0 THEN {"required"} ELSE {}

(* Validators.minLength(8): no error for the empty value, an error for a   *)
(* non-empty value shorter than the minimum                                *)
MinLengthValidator_OffByOne(v) == IF Len(v) > 0 /\ Len(v) < MinLength - 1 THEN {"minlength"} ELSE {}
MinLengthValidator(v) == IF Len(v) > 0 /\ Len(v) < MinLength THEN {"minlength"} ELSE {}

(* the characters of the input alphabet the pattern admits in a word of the *)
(* local part and of the domain                                             *)
LocalChars == {"a"}
DomainChars == {"a"}

(* a dot-separated run of non-empty words: no leading, trailing or double dot *)
DotSeparated(s, wordChars) ==
    /\ Len(s) > 0
    /\ \A i \in 1..Len(s) : s[i] \in wordChars \/ s[i] = "."
    /\ s[1] # "." /\ s[Len(s)] # "."
    /\ \A i \in 1..(Len(s) - 1) : ~(s[i] = "." /\ s[i + 1] = ".")

(* Validators.email: no error for the empty value; otherwise the value must *)
(* be local@domain, both parts dot-separated runs of non-empty words (the   *)
(* length limits of the pattern, 254/64/63, lie beyond the bounds used).    *)
EmailWellFormed(v) ==
    \E k \in 1..Len(v) :
        /\ v[k] = "@"
        /\ DotSeparated(SubSeq(v, 1, k - 1), LocalChars)
        /\ DotSeparated(SubSeq(v, k + 1, Len(v)), DomainChars)

EmailValidator(v) == IF Len(v) > 0 /\ ~EmailWellFormed(v) THEN {"email"} ELSE {}

(* the validator arrays of the two controls: errors of all validators merged *)
Validate(name, v) ==
    IF name = "email" THEN Required(v) \cup EmailValidator(v)
    ELSE Required(v) \cup MinLengthValidator(v)

(* AbstractControl status of the group: INVALID when any control has errors *)
GroupStatus(ctls) ==
    IF \E n \in DOMAIN ctls : ctls[n].errors # {} THEN "INVALID" ELSE "VALID"

GroupValue(ctls) == [email |-> ctls.email.value, password |-> ctls.password.value]

----------------------------------------------------------------------------
(* Derived streams *)

(* buttonDisabled$: map((status) => status === 'INVALID') *)
StatusToDisabled_Inverted(status) == status = "VALID"
StatusToDisabled(status) == status = "INVALID"

(* emailMessage$: the map callback *)
EmailMessage_RequiredOnly(emailErrors) ==
    IF "required" \in emailErrors THEN "This filed is required" ELSE ""
EmailMessage(emailErrors) ==
    IF emailErrors # {}
    THEN IF "required" \in emailErrors THEN "This filed is required"
         ELSE IF "email" \in emailErrors THEN "Wrong email format"
         ELSE ""
    ELSE ""

(* passwordMessage$: the map callback *)
PasswordMessage_IgnoreDirty(passwordErrors, dirty) ==
    IF "required" \in passwordErrors THEN "Password is required"
    ELSE IF "minlength" \in passwordErrors THEN "Password should have at least 8 characters"
    ELSE ""
PasswordMessage(passwordErrors, dirty) ==
    IF passwordErrors # {} /\ dirty
    THEN IF "required" \in passwordErrors THEN "Password is required"
         ELSE IF "minlength" \in passwordErrors THEN "Password should have at least 8 characters"
         ELSE ""
    ELSE ""

----------------------------------------------------------------------------
(* onSubmit and its response callback *)

Truthy(v) == v # Undefined /\ v # ""

SnackOpen(message, config) == [call |-> "snackBar.open", message |-> message, config |-> config]
NavigateByUrl(url) == [call |-> "router.navigateByUrl", url |-> url]
LoginUser(user) == [call |-> "authService.loginUser", user |-> user]
UnhandledError == [call |-> "unhandled error"]

LoginFailedSnack == SnackOpen("Login failed", [duration |-> 1000])
LoggedInSnack == SnackOpen("Logged in!", [duration |-> 1000, verticalPosition |-> "top",
                                          horizontalPosition |-> "right"])

(* if (this.formGroup.valid) *)
SubmitAllowed_Always == TRUE
SubmitAllowed == formGroup.status = "VALID"

(* const user: AuthUser = this.formGroup.value *)
User_Swapped == [email |-> formGroup.value.password, password |-> formGroup.value.email]
User == formGroup.value

(* the subscribe callback: the collaborator calls it makes for a response *)
ResponseEffects_TokenFirst(response) ==
    IF Truthy(response.token) THEN <<LoggedInSnack, NavigateByUrl("/settings")>>
    ELSE IF Truthy(response.error) THEN <<LoginFailedSnack>>
    ELSE <<>>
ResponseEffects_NavigateFirst(response) ==
    IF Truthy(response.error) THEN <<LoginFailedSnack>>
    ELSE IF Truthy(response.token) THEN <<NavigateByUrl("/settings"), LoggedInSnack>>
    ELSE <<>>
ResponseEffects_DefaultFailed(response) ==
    IF Truthy(response.error) THEN <<LoginFailedSnack>>
    ELSE IF Truthy(response.token) THEN <<LoggedInSnack, NavigateByUrl("/settings")>>
    ELSE <<LoginFailedSnack>>
ResponseEffects_NoReturn(response) ==
    (IF Truthy(response.error) THEN <<LoginFailedSnack>> ELSE <<>>)
        \o (IF Truthy(response.token) THEN <<LoggedInSnack, NavigateByUrl("/settings")>>
            ELSE <<>>)
ResponseEffects(response) ==
    IF Truthy(response.error) THEN <<LoginFailedSnack>>
    ELSE IF Truthy(response.token) THEN <<LoggedInSnack, NavigateByUrl("/settings")>>
    ELSE <<>>

Count(seq, x) == Cardinality({i \in 1..Len(seq) : seq[i] = x})

----------------------------------------------------------------------------
(* State machine *)

InitControl == [value |-> <<>>, errors |-> {"required"}, dirty |-> FALSE, touched |-> FALSE]

Init ==
    /\ controls = [email |-> InitControl, password |-> InitControl]
    /\ formGroup = [value |-> [email |-> <<>>, password |-> <<>>], status |-> "INVALID"]
    /\ subscribed = FALSE
    /\ buttonDisabled = NoEmission
    /\ emailMessage = NoEmission
    /\ passwordMessage = NoEmission
    /\ submitCalls = 0
    /\ loginCalls = 0
    /\ inFlight = 0
    /\ responses = 0
    /\ loginFailedShown = 0
    /\ loggedInShown = 0
    /\ navigations = 0
    /\ effects = <<>>

(* The view subscribes to the derived streams (async pipes): startWith(true) *)
(* is delivered at once, the mapped streams wait for the next event.         *)
Subscribe ==
    /\ ~subscribed
    /\ subscribed' = TRUE
    /\ buttonDisabled' = [src |-> "startWith", value |-> TRUE]
    /\ effects' = <<>>
    /\ UNCHANGED <<formVars, emailMessage, passwordMessage, submitVars>>

(* A control receives a value: from the user through the view (which marks   *)
(* it dirty first) or programmatically through setValue.  The control and    *)
(* then the group are revalidated; the group emits valueChanges and then     *)
(* statusChanges.                                                            *)
SetValue(name, v, byUser) ==
    /\ controls' = [controls EXCEPT ![name] =
                       [value |-> v, errors |-> Validate(name, v),
                        dirty |-> @.dirty \/ byUser, touched |-> @.touched]]
    /\ formGroup' = [value |-> GroupValue(controls'), status |-> GroupStatus(controls')]
    /\ IF subscribed
       THEN /\ emailMessage' = [src |-> "valueChanges",
                                value |-> EmailMessage(controls'.email.errors)]
            /\ passwordMessage' = [src |-> "valueChanges",
                                   value |-> PasswordMessage(controls'.password.errors,
                                                             controls'.password.dirty)]
            /\ buttonDisabled' = [src |-> "statusChanges",
                                  value |-> StatusToDisabled(formGroup'.status)]
       ELSE UNCHANGED <<emailMessage, passwordMessage, buttonDisabled>>
    /\ effects' = <<>>
    /\ UNCHANGED <<subscribed, submitVars>>

(* the user edits a field in the view *)
InputEmail ==
    \E v \in Keystrokes(controls.email.value, EmailAlphabet, MaxEmailLen) :
        SetValue("email", v, TRUE)

InputPassword ==
    \E v \in Keystrokes(controls.password.value, PasswordAlphabet, MaxPasswordLen) :
        SetValue("password", v, TRUE)

(* a field is written through the public formGroup (setValue, patchValue) *)
PatchEmail ==
    \E v \in Keystrokes(controls.email.value, EmailAlphabet, MaxEmailLen) :
        SetValue("email", v, FALSE)

PatchPassword ==
    \E v \in Keystrokes(controls.password.value, PasswordAlphabet, MaxPasswordLen) :
        SetValue("password", v, FALSE)

(* The user leaves a field: the control is marked touched, nothing is emitted *)
Blur(name) ==
    /\ controls' = [controls EXCEPT ![name].touched = TRUE]
    /\ effects' = <<>>
    /\ UNCHANGED <<formGroup, streamVars, submitVars>>

BlurEmail == Blur("email")

BlurPassword == Blur("password")

OnSubmit ==
    /\ submitCalls < MaxSubmits
    /\ submitCalls' = submitCalls + 1
    /\ IF SubmitAllowed
       THEN /\ loginCalls' = loginCalls + 1
            /\ inFlight' = inFlight + 1
            /\ effects' = <<LoginUser(User)>>
       ELSE /\ effects' = <<>>
            /\ UNCHANGED <<loginCalls, inFlight>>
    /\ UNCHANGED <<formVars, streamVars, responses, loginFailedShown, loggedInShown, navigations>>

(* The pending loginUser() observable delivers its response *)
HandleResponse(response) ==
    /\ inFlight > 0
    /\ inFlight' = inFlight - 1
    /\ responses' = responses + 1
    /\ effects' = ResponseEffects(response)
    /\ loginFailedShown' = loginFailedShown + Count(effects', LoginFailedSnack)
    /\ loggedInShown' = loggedInShown + Count(effects', LoggedInSnack)
    /\ navigations' = navigations + Count(effects', NavigateByUrl("/settings"))
    /\ UNCHANGED <<formVars, streamVars, submitCalls, loginCalls>>

OnResponse == \E response \in Responses : HandleResponse(response)

(* The pending loginUser() observable fails: subscribe() was given no error  *)
(* callback, so the component does nothing and the error goes unhandled.     *)
OnFailure ==
    /\ inFlight > 0
    /\ inFlight' = inFlight - 1
    /\ effects' = <<UnhandledError>>
    /\ UNCHANGED <<formVars, streamVars, submitCalls, loginCalls, responses,
                   loginFailedShown, loggedInShown, navigations>>

(* The form and its derived streams on one side, submission on the other,  *)
(* share only the form fields: onSubmit and its callback read neither the  *)
(* dirty and touched flags nor the streams, and the streams read nothing   *)
(* that onSubmit writes.  Each side is explored with the field edits.      *)
FormNext ==
    \/ Subscribe
    \/ InputEmail
    \/ InputPassword
    \/ PatchEmail
    \/ PatchPassword
    \/ BlurEmail
    \/ BlurPassword

FormSpec == Init /\ [][FormNext]_vars

SubmitNext ==
    \/ InputEmail
    \/ InputPassword
    \/ OnSubmit
    \/ OnResponse
    \/ OnFailure

SubmitSpec == Init /\ [][SubmitNext]_vars

----------------------------------------------------------------------------
(* Properties *)

email == controls.email.value
password == controls.password.value

(* the credentials invariant of the data model, stated on the field values *)
ValidCredentials ==
    /\ Len(email) > 0 /\ EmailWellFormed(email)
    /\ Len(password) >= MinLength

SubmitStep == submitCalls' = submitCalls + 1

ErrorSet(response) == response.error \notin {Undefined, ""}
TokenSet(response) == response.token \notin {Undefined, ""}

(* C1: an onSubmit() call made while the form is invalid (email empty or    *)
(* malformed, password empty or shorter than 8) changes nothing: no         *)
(* loginUser call, no notification, no navigation, however often repeated.  *)
C1_InvalidSubmitIsNoOp ==
    [][(SubmitStep /\ ~ValidCredentials) =>
          /\ effects' = <<>>
          /\ UNCHANGED <<loginCalls, inFlight, responses, loginFailedShown, loggedInShown,
                         navigations, formVars, streamVars>>]_vars

C1_Witness ==
    /\ submitCalls >= 2 /\ loginCalls = 0 /\ effects = <<>>
    /\ EmailWellFormed(email) /\ Len(password) = MinLength - 1

(* C2: an onSubmit() call made while the form is valid calls loginUser      *)
(* exactly once, with exactly the email and password the form holds.        *)
C2_ValidSubmitCallsLoginOnce ==
    [][(SubmitStep /\ ValidCredentials) =>
          /\ effects' = <<LoginUser([email |-> email, password |-> password])>>
          /\ loginCalls' = loginCalls + 1]_vars

C2_Witness ==
    /\ loginCalls = 1
    /\ effects = <<LoginUser([email |-> <<"a", "@", "a">>,
                              password |-> <<"p", "p", "p", "p", "p", "p", "p", "p">>])>>

(* C3: a response whose error is truthy, with or without a token, opens     *)
(* 'Login failed' (1000 ms) exactly once, and neither navigates nor opens   *)
(* 'Logged in!'.                                                            *)
C3_ErrorResponse ==
    [][\A r \in Responses : (HandleResponse(r) /\ ErrorSet(r)) =>
          /\ effects' = <<LoginFailedSnack>>
          /\ loginFailedShown' = loginFailedShown + 1
          /\ UNCHANGED <<loggedInShown, navigations>>]_vars

C3_Witness ==
    /\ effects = <<LoginFailedSnack>>
    /\ loginFailedShown = 1 /\ loggedInShown = 0 /\ navigations = 0 /\ responses = 1

(* C4: a response with a truthy token and no truthy error opens 'Logged in!' *)
(* (1000 ms, top/right) exactly once and then navigates to /settings exactly *)
(* once, and opens no 'Login failed'.                                        *)
C4_TokenResponse ==
    [][\A r \in Responses : (HandleResponse(r) /\ TokenSet(r) /\ ~ErrorSet(r)) =>
          /\ effects' = <<LoggedInSnack, NavigateByUrl("/settings")>>
          /\ loggedInShown' = loggedInShown + 1
          /\ navigations' = navigations + 1
          /\ UNCHANGED loginFailedShown]_vars

C4_Witness ==
    /\ effects = <<LoggedInSnack, NavigateByUrl("/settings")>>
    /\ loggedInShown = 1 /\ navigations = 1 /\ loginFailedShown = 0 /\ responses = 1

(* C5: a response with neither a truthy error nor a truthy token opens no    *)
(* notification, performs no navigation and leaves the form state unchanged. *)
C5_EmptyResponse ==
    [][\A r \in Responses : (HandleResponse(r) /\ ~ErrorSet(r) /\ ~TokenSet(r)) =>
          /\ effects' = <<>>
          /\ UNCHANGED <<loginFailedShown, loggedInShown, navigations, formVars, streamVars>>]_vars

C5_Witness ==
    /\ responses = 1 /\ effects = <<>>
    /\ loginFailedShown = 0 /\ loggedInShown = 0 /\ navigations = 0

(* C6: buttonDisabled$ first emits true; it never emits false while the form *)
(* is invalid; and once a status change has been delivered its latest value  *)
(* is true exactly when the form is not valid.                               *)
C6_ButtonState ==
    /\ (buttonDisabled.src # "none" /\ ~buttonDisabled.value) => ValidCredentials
    /\ buttonDisabled.src = "statusChanges" => (buttonDisabled.value <=> ~ValidCredentials)

C6_ButtonDisabled ==
    /\ []C6_ButtonState
    /\ [][(buttonDisabled = NoEmission /\ buttonDisabled' # NoEmission) =>
             buttonDisabled'.value]_vars

C6_Witness ==
    /\ buttonDisabled.src = "statusChanges" /\ ~buttonDisabled.value
    /\ ValidCredentials

(* C7: the email hint emitted on a value change is 'This filed is required'  *)
(* for an empty email, 'Wrong email format' for a non-empty malformed one    *)
(* and '' otherwise, whatever the email control's touched and dirty flags.   *)
C7_EmailHint ==
    emailMessage.src # "none" =>
        emailMessage.value =
            IF Len(email) = 0 THEN "This filed is required"
            ELSE IF ~EmailWellFormed(email) THEN "Wrong email format"
            ELSE ""

C7_Witness ==
    /\ emailMessage.src # "none" /\ emailMessage.value = "Wrong email format"
    /\ ~controls.email.dirty /\ ~controls.email.touched

(* C8 as stated: for a touched password field holding fewer than 8           *)
(* characters the hint is 'Password should have at least 8 characters'.      *)
C8_Original ==
    (passwordMessage.src # "none" /\ controls.password.touched /\ Len(password) < MinLength) =>
        passwordMessage.value = "Password should have at least 8 characters"

(* C8 amended: for a dirty password field holding at least 1 and fewer than  *)
(* 8 characters the hint emitted is 'Password should have at least 8         *)
(* characters'.                                                              *)
C8_DirtyShortPasswordHint ==
    (passwordMessage.src # "none" /\ controls.password.dirty
        /\ Len(password) > 0 /\ Len(password) < MinLength) =>
        passwordMessage.value = "Password should have at least 8 characters"

C8_Witness ==
    /\ passwordMessage.src # "none" /\ controls.password.dirty
    /\ Len(password) = MinLength - 1
    /\ passwordMessage.value = "Password should have at least 8 characters"

C10_Counts ==
    /\ navigations <= loggedInShown
    /\ loggedInShown <= loginCalls
    /\ loginFailedShown + loggedInShown <= responses
    /\ responses + inFlight <= loginCalls
    /\ loginCalls <= submitCalls

C10_Steps ==
    /\ loginCalls' \in {loginCalls, loginCalls + 1}
    /\ loginCalls' # loginCalls <=> (SubmitStep /\ ValidCredentials)
    /\ navigations' # navigations =>
          /\ navigations' = navigations + 1
          /\ inFlight > 0
          /\ \E r \in Responses : HandleResponse(r) /\ TokenSet(r) /\ ~ErrorSet(r)
    /\ (loginFailedShown' + loggedInShown') - (loginFailedShown + loggedInShown)
          \in {0, responses' - responses}

C10_SubmissionFlow == []C10_Counts /\ [][C10_Steps]_vars

C10_Witness ==
    /\ navigations >= 1 /\ inFlight >= 1 /\ loginCalls >= 2
    /\ ~ValidCredentials

====
